---- MODULE Spec2Model ----
(***************************************************************************)
(* A model of calculate_dca_returns (src/calculations.py): a dollar-cost-  *)
(* averaging simulation over a daily-compounding savings account.          *)
(*                                                                         *)
(* Numbers.  The code computes in floating point; the model computes in    *)
(* integers, in units chosen so that every product and quotient the code   *)
(* forms is exact for the inputs drawn here:                               *)
(*   money      in cents                                                   *)
(*   fractions  in 1/AllocDen             (AllocDen  units  = 1.0)         *)
(*   shares     in 1/ShareDen of a share  (ShareDen  units  = 1 share)     *)
(*   intervals  in half days              (IntervalDen units = 1 day)      *)
(*   dates      as day numbers                                             *)
(* A missing price (None in the code) is the value None below.             *)
(***************************************************************************)
EXTENDS Integers, Sequences, FiniteSets, TLC

VARIABLES
    \* arguments of calculate_dca_returns
    initial_savings, annual_interest_rate, investment_amount,
    investment_frequency, portfolio_structure, start_date, end_date,
    \* the market-data collaborator: ticker -> rows it would return
    provider,
    \* position in the function body, and the exception raised (if any)
    pc, error,
    \* locals of calculate_dca_returns
    stock_data_dict, daily_rate, investment_interval,
    current_savings, total_shares_dict, last_known_price_dict,
    total_invested, investment_dates, savings_history,
    portfolio_value_history, days_since_investment, current_date,
    \* the returned dict
    result,
    \* observation: tickers passed to download_stock_data, in call order,
    \* and the number of get_stock_price calls made
    fetch_log, price_lookups,
    \* the caller: the calls that have returned or raised, each with its
    \* arguments and outcome
    calls,
    \* the app (src/main.py): the widgets that are not arguments above
    \* (app_ticker is the widget 'ticker'), the
    \* session state, the message shown, the button last pressed and the
    \* number of button presses
    scenario_name, app_ticker, saved_scenarios, current_results,
    current_scenario_name, message, pressed, clicks

vars == <<initial_savings, annual_interest_rate, investment_amount,
          investment_frequency, portfolio_structure, start_date, end_date,
          provider, pc, error, stock_data_dict, daily_rate,
          investment_interval, current_savings, total_shares_dict,
          last_known_price_dict, total_invested, investment_dates,
          savings_history, portfolio_value_history, days_since_investment,
          current_date, result, fetch_log, price_lookups, calls,
          scenario_name, app_ticker, saved_scenarios, current_results,
          current_scenario_name, message, pressed, clicks>>

app == <<scenario_name, app_ticker, saved_scenarios, current_results,
         current_scenario_name, message, pressed, clicks>>

inputs == <<initial_savings, annual_interest_rate, investment_amount,
            investment_frequency, portfolio_structure, start_date, end_date,
            provider>>

-----------------------------------------------------------------------------
(* Units *)

AllocDen == 200
ShareDen == 1000
IntervalDen == 2
PercentDen == 100
DaysPerYear == 365

None == -1
NoResult == [status |-> "none"]
\* a key that is not in st.session_state
Absent == "(absent)"

-----------------------------------------------------------------------------
(* Helpers on sequences and ordered dicts *)

RECURSIVE SumSeq(_)
SumSeq(s) == IF s = <<>> THEN 0 ELSE Head(s) + SumSeq(Tail(s))

RECURSIVE Gcd(_, _)
Gcd(a, b) == IF b = 0 THEN a ELSE Gcd(b, a % b)

\* portfolio_structure is an ordered dict: a sequence of <<ticker, fraction>>
Keys(p) == [i \in 1..Len(p) |-> p[i][1]]
Values(p) == [i \in 1..Len(p) |-> p[i][2]]
KeySet(p) == {p[i][1] : i \in 1..Len(p)}

-----------------------------------------------------------------------------
(* Pure functions of src/calculations.py *)

\* (annual_rate / 100) / 365, as a fraction <<numerator, denominator>> in
\* lowest terms
calculate_daily_interest_rate(annual_rate) ==
    LET den == PercentDen * DaysPerYear
        g == Gcd(annual_rate, den)
    IN  <<annual_rate \div g, den \div g>>

\* the intervals with 3.5 days cut to 3 whole days
get_investment_interval_whole_days(frequency) ==
    CASE frequency = "Twice a week" -> 6
      [] frequency = "Weekly" -> 14
      [] frequency = "Every two weeks" -> 28
      [] frequency = "Monthly" -> 60
      [] OTHER -> 14

\* freq_days.get(frequency, 7), in half days
get_investment_interval_days(frequency) ==
    CASE frequency = "Twice a week" -> 7
      [] frequency = "Weekly" -> 14
      [] frequency = "Every two weeks" -> 28
      [] frequency = "Monthly" -> 60
      [] OTHER -> 14

\* stock_data[stock_data['Date'] == date]: the rows of that date, else None;
\* the Close of the first of them
get_stock_price(stock_data, date) ==
    LET matching_rows == SelectSeq(stock_data, LAMBDA r : r.Date = date)
    IN  IF matching_rows = <<>> THEN None ELSE matching_rows[1].Close

\* download_stock_data without the check of line 30
DownloadNeverFails(ticker) == FALSE

\* yf.download(...).empty raises ValueError
DownloadFails(ticker) == provider[ticker] = <<>>

-----------------------------------------------------------------------------
(* calculate_dca_returns, lines 166-201: validation, download, set-up *)

total_allocation == SumSeq(Values(portfolio_structure))

\* the band of line 172 widened to [0.98, 1.02]
AllocationOutOfWideBand ==
    ~(98 * AllocDen <= 100 * total_allocation
        /\ 100 * total_allocation <= 102 * AllocDen)

\* not (0.99 <= total_allocation <= 1.01), in 1/AllocDen
AllocationOutOfBand ==
    ~(99 * AllocDen <= 100 * total_allocation
        /\ 100 * total_allocation <= 101 * AllocDen)

InvalidAllocation ==
    investment_amount > 0
        /\ (portfolio_structure = <<>> \/ AllocationOutOfBand)

Raise(e) ==
    /\ pc' = "raised"
    /\ error' = e

Validate ==
    /\ pc = "validate"
    /\ IF InvalidAllocation
       THEN /\ Raise("ValueError: portfolio")
            /\ UNCHANGED <<stock_data_dict, daily_rate, investment_interval,
                           current_savings, total_shares_dict,
                           last_known_price_dict, total_invested,
                           investment_dates, savings_history,
                           portfolio_value_history, days_since_investment,
                           current_date, result, fetch_log, price_lookups>>
       ELSE /\ pc' = "download"
            /\ stock_data_dict' = <<>>
            /\ UNCHANGED <<error, daily_rate,
                           investment_interval, current_savings,
                           total_shares_dict, last_known_price_dict,
                           total_invested, investment_dates, savings_history,
                           portfolio_value_history, days_since_investment,
                           current_date, result, fetch_log, price_lookups>>
    /\ UNCHANGED <<inputs, calls, app>>

\* the download loop without the condition of line 176
ToDownloadAlways ==
    SelectSeq(Keys(portfolio_structure),
              LAMBDA t : t \notin DOMAIN stock_data_dict)

\* the tickers the download loop has still to fetch, in dict order
ToDownload ==
    IF investment_amount > 0
    THEN SelectSeq(Keys(portfolio_structure),
                   LAMBDA t : t \notin DOMAIN stock_data_dict)
    ELSE <<>>

\* one iteration of the loop of lines 177-178
Download ==
    /\ pc = "download"
    /\ ToDownload # <<>>
    /\ LET ticker == Head(ToDownload) IN
         /\ fetch_log' = Append(fetch_log, ticker)
         /\ IF DownloadFails(ticker)
            THEN /\ Raise("ValueError: no stock data")
                 /\ UNCHANGED stock_data_dict
            ELSE /\ stock_data_dict' =
                        [t \in DOMAIN stock_data_dict \cup {ticker} |->
                            IF t = ticker THEN provider[ticker]
                            ELSE stock_data_dict[t]]
                 /\ UNCHANGED <<pc, error>>
    /\ UNCHANGED <<daily_rate, investment_interval, current_savings,
                   total_shares_dict, last_known_price_dict, total_invested,
                   investment_dates, savings_history, portfolio_value_history,
                   days_since_investment, current_date, result,
                   price_lookups>>
    /\ UNCHANGED <<inputs, calls, app>>

\* the last known price initialised to the first close of the rows, if any
first_close_or_zero(ticker) ==
    IF provider[ticker] = <<>> THEN 0 ELSE provider[ticker][1].Close

\* line 189: 0.0 for every ticker
initial_last_known_price(ticker) == 0

\* the set-up without the assignment of line 201
SetupKeepingCounter ==
    /\ pc = "download"
    /\ ToDownload = <<>>
    /\ daily_rate' = calculate_daily_interest_rate(annual_interest_rate)
    /\ investment_interval' = get_investment_interval_days(investment_frequency)
    /\ current_savings' = initial_savings
    /\ total_shares_dict' = [t \in KeySet(portfolio_structure) |-> 0]
    /\ last_known_price_dict' =
           [t \in KeySet(portfolio_structure) |-> initial_last_known_price(t)]
    /\ total_invested' = 0
    /\ investment_dates' = <<>>
    /\ savings_history' = <<>>
    /\ portfolio_value_history' = <<>>
    /\ current_date' = start_date - 1
    /\ pc' = "loop"
    /\ UNCHANGED <<error, stock_data_dict, result, fetch_log, price_lookups,
                   days_since_investment>>
    /\ UNCHANGED <<inputs, calls, app>>

\* lines 180-201; current_date is the last date the loop has taken from
\* date_range (the day before start_date: none yet)
Setup ==
    /\ pc = "download"
    /\ ToDownload = <<>>
    /\ daily_rate' = calculate_daily_interest_rate(annual_interest_rate)
    /\ investment_interval' = get_investment_interval_days(investment_frequency)
    /\ current_savings' = initial_savings
    /\ total_shares_dict' = [t \in KeySet(portfolio_structure) |-> 0]
    /\ last_known_price_dict' =
           [t \in KeySet(portfolio_structure) |-> initial_last_known_price(t)]
    /\ total_invested' = 0
    /\ investment_dates' = <<>>
    /\ savings_history' = <<>>
    /\ portfolio_value_history' = <<>>
    /\ days_since_investment' = 0
    /\ current_date' = start_date - 1
    /\ pc' = "loop"
    /\ UNCHANGED <<error, stock_data_dict, result, fetch_log, price_lookups>>
    /\ UNCHANGED <<inputs, calls, app>>

-----------------------------------------------------------------------------
(* calculate_dca_returns, lines 203-283: one simulated day *)

tickers == Keys(portfolio_structure)

\* portfolio_structure[ticker]
AllocationOf(ticker) ==
    LET i == CHOOSE i \in 1..Len(portfolio_structure) :
                 portfolio_structure[i][1] = ticker
    IN  portfolio_structure[i][2]

\* get_stock_price(stock_data_dict[ticker], current_date)
PriceToday(ticker) == get_stock_price(stock_data_dict[ticker], current_date)

\* interest on the initial balance instead of the current one
daily_interest_simple == (initial_savings * daily_rate[1]) \div daily_rate[2]

\* line 206: current_savings * daily_rate
daily_interest == (current_savings * daily_rate[1]) \div daily_rate[2]

\* lines 204-207: take the next date, add the day's interest
AccrueInterest ==
    /\ pc = "loop"
    /\ current_date < end_date
    /\ current_date' = current_date + 1
    /\ current_savings' = current_savings + daily_interest
    /\ pc' = "gate"
    /\ UNCHANGED <<error, stock_data_dict, daily_rate, investment_interval,
                   total_shares_dict, last_known_price_dict, total_invested,
                   investment_dates, savings_history, portfolio_value_history,
                   days_since_investment, result, fetch_log, price_lookups>>
    /\ UNCHANGED <<inputs, calls, app>>

\* the gate of line 213 with a counter that must exceed the interval
InvestmentDueStrict ==
    /\ (days_since_investment + 1) * IntervalDen > investment_interval
    /\ current_savings >= investment_amount

\* the gate of line 213 without its condition on the balance
InvestmentDueIgnoringCash ==
    (days_since_investment + 1) * IntervalDen >= investment_interval

\* line 213, evaluated after the increment of line 211
InvestmentDue ==
    /\ (days_since_investment + 1) * IntervalDen >= investment_interval
    /\ current_savings >= investment_amount

\* can_invest, satisfied by one priced ticker
can_invest_any == \E i \in 1..Len(tickers) : PriceToday(tickers[i]) # None

\* lines 221-227: every ticker has a price for current_date
can_invest == \A i \in 1..Len(tickers) : PriceToday(tickers[i]) # None

\* get_stock_price calls of the loop of lines 223-227, which breaks at the
\* first ticker without a price
LookupsOfCheck ==
    IF can_invest THEN Len(tickers)
    ELSE CHOOSE n \in 1..Len(tickers) :
             /\ PriceToday(tickers[n]) = None
             /\ \A j \in 1..(n - 1) : PriceToday(tickers[j]) # None

\* the amount of a ticker with the fractions scaled to sum to 1
ticker_investment_normalised(ticker) ==
    (investment_amount * AllocationOf(ticker)) \div total_allocation

\* lines 232-234
ticker_investment(ticker) == (investment_amount * AllocationOf(ticker)) \div AllocDen

\* shares_purchased at the price of the first ticker of the portfolio
shares_purchased_first_price(ticker) ==
    (ticker_investment(ticker) * ShareDen) \div PriceToday(tickers[1])

shares_purchased(ticker) == (ticker_investment(ticker) * ShareDen) \div PriceToday(ticker)

\* lines 215-219, 237-241
investment_record ==
    [date |-> current_date,
     total_amount |-> investment_amount,
     allocations |-> [t \in KeySet(portfolio_structure) |->
                         [amount |-> ticker_investment(t),
                          price |-> PriceToday(t),
                          shares |-> shares_purchased(t)]]]

\* the counter after a skipped attempt, reset as after an investment
CounterAfterSkipReset == 0

\* lines 211, 229: line 247 is not reached, the counter keeps its increment
CounterAfterSkip == days_since_investment + 1

\* the deduction of line 245, made once per ticker
SavingsAfterInvestPerTicker ==
    current_savings - investment_amount * Len(tickers)

\* line 245
SavingsAfterInvest == current_savings - investment_amount

\* the addition of line 244, of the amounts allocated to the tickers
InvestedAfterInvestAllocated ==
    total_invested
        + SumSeq([i \in 1..Len(tickers) |-> ticker_investment(tickers[i])])

\* line 244
InvestedAfterInvest == total_invested + investment_amount

\* lines 210-213 when the condition of line 213 (or 210) is false
NoInvestment ==
    /\ pc = "gate"
    /\ ~(investment_amount > 0 /\ InvestmentDue)
    /\ days_since_investment' =
           IF investment_amount > 0 THEN days_since_investment + 1
           ELSE days_since_investment
    /\ pc' = "record"
    /\ UNCHANGED <<error, stock_data_dict, daily_rate, investment_interval,
                   current_savings, total_shares_dict, last_known_price_dict,
                   total_invested, investment_dates, savings_history,
                   portfolio_value_history, current_date, result, fetch_log,
                   price_lookups>>
    /\ UNCHANGED <<inputs, calls, app>>

\* a skipped attempt that appends the record of lines 215-219 as it stands
SkipInvestmentRecording ==
    /\ pc = "gate"
    /\ investment_amount > 0
    /\ InvestmentDue
    /\ ~can_invest
    /\ days_since_investment' = CounterAfterSkip
    /\ price_lookups' = price_lookups + LookupsOfCheck
    /\ investment_dates' =
           Append(investment_dates,
                  [date |-> current_date, total_amount |-> investment_amount,
                   allocations |-> <<>>])
    /\ pc' = "record"
    /\ UNCHANGED <<error, stock_data_dict, daily_rate, investment_interval,
                   current_savings, total_shares_dict, last_known_price_dict,
                   total_invested, savings_history,
                   portfolio_value_history, current_date, result, fetch_log>>
    /\ UNCHANGED <<inputs, calls, app>>

\* lines 210-229 when can_invest ends False
SkipInvestment ==
    /\ pc = "gate"
    /\ investment_amount > 0
    /\ InvestmentDue
    /\ ~can_invest
    /\ days_since_investment' = CounterAfterSkip
    /\ price_lookups' = price_lookups + LookupsOfCheck
    /\ pc' = "record"
    /\ UNCHANGED <<error, stock_data_dict, daily_rate, investment_interval,
                   current_savings, total_shares_dict, last_known_price_dict,
                   total_invested, investment_dates, savings_history,
                   portfolio_value_history, current_date, result, fetch_log>>
    /\ UNCHANGED <<inputs, calls, app>>

\* lines 210-247 when can_invest ends True
Invest ==
    /\ pc = "gate"
    /\ investment_amount > 0
    /\ InvestmentDue
    /\ can_invest
    /\ total_shares_dict' =
           [t \in DOMAIN total_shares_dict |->
               total_shares_dict[t] + shares_purchased(t)]
    /\ total_invested' = InvestedAfterInvest
    /\ current_savings' = SavingsAfterInvest
    /\ investment_dates' = Append(investment_dates, investment_record)
    /\ days_since_investment' = 0
    /\ price_lookups' = price_lookups + LookupsOfCheck + Len(tickers)
    /\ pc' = "record"
    /\ UNCHANGED <<error, stock_data_dict, daily_rate, investment_interval,
                   last_known_price_dict, savings_history,
                   portfolio_value_history, current_date, result, fetch_log>>
    /\ UNCHANGED <<inputs, calls, app>>

\* lines 249-253
RecordSavings ==
    /\ pc = "record"
    /\ savings_history' = Append(savings_history,
                                 [date |-> current_date,
                                  savings_balance |-> current_savings])
    /\ pc' = "value"
    /\ UNCHANGED <<error, stock_data_dict, daily_rate, investment_interval,
                   current_savings, total_shares_dict, last_known_price_dict,
                   total_invested, investment_dates, portfolio_value_history,
                   days_since_investment, current_date, result, fetch_log,
                   price_lookups>>
    /\ UNCHANGED <<inputs, calls, app>>

\* the update of line 265 without the test shares > 0 of line 261
LastKnownAfterAnyShares(ticker) ==
    IF PriceToday(ticker) # None
    THEN PriceToday(ticker) ELSE last_known_price_dict[ticker]

\* LastKnownAfter, updated only on a date every ticker has a price
LastKnownAfterBasket(ticker) ==
    IF total_shares_dict[ticker] > 0
          /\ \A i \in 1..Len(tickers) : PriceToday(tickers[i]) # None
    THEN PriceToday(ticker)
    ELSE last_known_price_dict[ticker]

\* lines 262-266: the last known price of a ticker after today's look-up
LastKnownAfter(ticker) ==
    IF total_shares_dict[ticker] > 0 /\ PriceToday(ticker) # None
    THEN PriceToday(ticker)
    ELSE last_known_price_dict[ticker]

\* lines 260-270: shares * last_known_price_dict[ticker], for shares > 0
ticker_value(ticker) ==
    IF total_shares_dict[ticker] > 0
    THEN (total_shares_dict[ticker] * LastKnownAfter(ticker)) \div ShareDen
    ELSE 0

current_portfolio_value ==
    SumSeq([i \in 1..Len(tickers) |-> ticker_value(tickers[i])])

\* RecordPortfolio, appending a value only once shares are held
RecordPortfolioWhenInvested ==
    /\ pc = "value"
    /\ IF investment_amount > 0
          /\ \E t \in DOMAIN total_shares_dict : total_shares_dict[t] > 0
       THEN /\ last_known_price_dict' =
                   [t \in DOMAIN last_known_price_dict |-> LastKnownAfter(t)]
            /\ portfolio_value_history' =
                   Append(portfolio_value_history,
                          [date |-> current_date,
                           portfolio_value |-> current_portfolio_value])
            /\ price_lookups' = price_lookups
                   + Cardinality({t \in DOMAIN total_shares_dict :
                                      total_shares_dict[t] > 0})
       ELSE UNCHANGED <<portfolio_value_history, last_known_price_dict,
                        price_lookups>>
    /\ pc' = "loop"
    /\ UNCHANGED <<error, stock_data_dict, daily_rate, investment_interval,
                   current_savings, total_shares_dict, total_invested,
                   investment_dates, savings_history, days_since_investment,
                   current_date, result, fetch_log>>
    /\ UNCHANGED <<inputs, calls, app>>

\* lines 255-283
RecordPortfolio ==
    /\ pc = "value"
    /\ IF investment_amount > 0
       THEN /\ last_known_price_dict' =
                   [t \in DOMAIN last_known_price_dict |-> LastKnownAfter(t)]
            /\ portfolio_value_history' =
                   Append(portfolio_value_history,
                          [date |-> current_date,
                           portfolio_value |-> current_portfolio_value])
            /\ price_lookups' = price_lookups
                   + Cardinality({t \in DOMAIN total_shares_dict :
                                      total_shares_dict[t] > 0})
       ELSE /\ portfolio_value_history' =
                   Append(portfolio_value_history,
                          [date |-> current_date, portfolio_value |-> 0])
            /\ UNCHANGED <<last_known_price_dict, price_lookups>>
    /\ pc' = "loop"
    /\ UNCHANGED <<error, stock_data_dict, daily_rate, investment_interval,
                   current_savings, total_shares_dict, total_invested,
                   investment_dates, savings_history, days_since_investment,
                   current_date, result, fetch_log>>
    /\ UNCHANGED <<inputs, calls, app>>

-----------------------------------------------------------------------------
(* calculate_dca_returns, lines 285-338: final calculations *)

\* final_price falling back on the first row of the series
final_price_first_row(ticker) ==
    LET at_end == get_stock_price(stock_data_dict[ticker], end_date)
        rows == stock_data_dict[ticker]
    IN  IF at_end = None THEN rows[1].Close ELSE at_end

\* final_price falling back on the last known price of the run
final_price_forward_filled(ticker) ==
    LET at_end == get_stock_price(stock_data_dict[ticker], end_date)
    IN  IF at_end = None THEN last_known_price_dict[ticker] ELSE at_end

\* lines 292-296: the look-up for the last date, else the last row's Close
final_price(ticker) ==
    LET at_end == get_stock_price(stock_data_dict[ticker], end_date)
        rows == stock_data_dict[ticker]
    IN  IF at_end = None THEN rows[Len(rows)].Close ELSE at_end

\* lines 286-303
final_stock_prices ==
    IF investment_amount > 0
    THEN [t \in DOMAIN total_shares_dict |-> final_price(t)]
    ELSE <<>>

final_portfolio_value ==
    IF investment_amount > 0
    THEN SumSeq([i \in 1..Len(tickers) |->
                    (total_shares_dict[tickers[i]] * final_price(tickers[i]))
                        \div ShareDen])
    ELSE 0

\* the division of lines 315 and 319 without its guard
RateOfUnguarded(x, y) == <<x * 100, y>>

\* lines 315, 319: (x / y) * 100 if y > 0 else 0, as a fraction
RateOf(x, y) == IF y > 0 THEN <<x * 100, y>> ELSE <<0, 1>>

\* the interest as the change of the balance, investments not added back
savings_interest_earned_gross == current_savings - initial_savings

\* lines 305, 308: final_savings - (initial_savings - total_invested)
savings_interest_earned ==
    current_savings - (initial_savings - total_invested)

\* lines 305-338
Finalize ==
    /\ pc = "loop"
    /\ current_date >= end_date
    /\ LET final_savings == current_savings
           total_final_value == final_savings + final_portfolio_value
           total_return == total_final_value - initial_savings
           investment_return == final_portfolio_value - total_invested
       IN  result' =
               [status |-> "returned",
                initial_savings |-> initial_savings,
                total_invested |-> total_invested,
                num_investments |-> Len(investment_dates),
                total_shares |-> total_shares_dict,
                final_stock_prices |-> final_stock_prices,
                final_portfolio_value |-> final_portfolio_value,
                final_savings |-> final_savings,
                savings_interest_earned |-> savings_interest_earned,
                total_final_value |-> total_final_value,
                total_return |-> total_return,
                return_rate |-> RateOf(total_return, initial_savings),
                investment_return |-> investment_return,
                investment_return_rate |->
                    RateOf(investment_return, total_invested),
                investment_dates |-> investment_dates,
                savings_history |-> savings_history,
                portfolio_value_history |-> portfolio_value_history]
    /\ price_lookups' = price_lookups
           + (IF investment_amount > 0 THEN Len(tickers) ELSE 0)
    /\ pc' = "done"
    /\ UNCHANGED <<error, stock_data_dict, daily_rate, investment_interval,
                   current_savings, total_shares_dict, last_known_price_dict,
                   total_invested, investment_dates, savings_history,
                   portfolio_value_history, days_since_investment,
                   current_date, fetch_log>>
    /\ UNCHANGED <<inputs, calls, app>>

-----------------------------------------------------------------------------
(* The inputs explored *)

\* bounds of the inputs explored
MaxStart == 2
MaxDays == 9
MaxExtra == 1
GapDays == 8
LongDays == 31
MaxWeeks == 4

Tickers == {"A", "B"}

\* the price of a ticker on a day it trades, in cents
ClosePrice(ticker, date, moving) ==
    IF ticker = "A"
    THEN IF moving THEN <<1000, 2000, 5000, 10000>>[(date % 4) + 1] ELSE 1000
    ELSE IF moving THEN <<5000, 10000, 2000>>[(date % 3) + 1] ELSE 2000

\* the rows of a ticker for the dates first..last, without those of closed
Rows(ticker, first, last, closed, moving) ==
    LET all == [i \in 1..(last - first + 1) |->
                   [Date |-> first + i - 1,
                    Close |-> ClosePrice(ticker, first + i - 1, moving)]]
    IN  SelectSeq(all, LAMBDA r : r.Date \notin closed)

\* a closure: no date, or a run of consecutive dates within first..last
Closures(first, last) ==
    {{}} \cup {from..to : from \in first..last, to \in first..last}

\* the weekends of first..last when date 1 is the w-th day of a week; none
\* for w = 7 (a market that trades every day)
Weekends(first, last, w) ==
    {d \in first..last : w < 7 /\ ((d + w) % 7) \in {5, 6}}

Single == << <<"A", 200>> >>
Halves == << <<"A", 100>>, <<"B", 100>> >>
Under == << <<"A", 199>> >>
Over == << <<"A", 100>>, <<"B", 101>> >>

Portfolios ==
    { <<>>, Single, Halves, Under, Over,
      << <<"A", 80>>, <<"B", 120>> >>,
      << <<"A", 198>> >>,
      << <<"A", 100>>, <<"B", 102>> >>,
      << <<"A", 196>> >>,
      << <<"A", 197>> >>,
      << <<"A", 203>> >>,
      << <<"A", 100>>, <<"B", 104>> >> }

Frequencies ==
    {"Twice a week", "Weekly", "Every two weeks", "Monthly", "Daily"}

Config(cash, rate, amount, freq, portfolio, first, last, prov) ==
    [initial_savings |-> cash, annual_interest_rate |-> rate,
     investment_amount |-> amount, investment_frequency |-> freq,
     portfolio_structure |-> portfolio, start_date |-> first,
     end_date |-> last, provider |-> prov]

\* every portfolio and amount over a short range, with a collaborator that
\* has no rows for the tickers of nodata
ValidationConfigs ==
    { Config(100000, 0, amount, "Weekly", portfolio, first, first + 1,
             [t \in Tickers |->
                 IF t \in nodata THEN <<>>
                 ELSE Rows(t, first, first + 1, {}, FALSE)]) :
        amount \in {0, 10000, 20000}, portfolio \in Portfolios,
        first \in 1..MaxStart, nodata \in SUBSET Tickers }

\* <<initial_savings, annual_interest_rate>>
Accounts == {<<0, 0>>, <<15000, 0>>, <<100000, 0>>, <<15000, 36500>>}

\* every date range up to MaxDays, markets closed at weekends
RangeConfigs ==
    { Config(acct[1], acct[2], amount, freq, portfolio, first, last,
             [t \in Tickers |->
                 Rows(t, first, last + extra,
                      Weekends(first, last + extra, w), TRUE)]) :
        acct \in Accounts, amount \in {0, 10000},
        freq \in {"Twice a week", "Weekly"},
        portfolio \in {Single, Halves},
        first \in 1..MaxStart, last \in 1..MaxDays, extra \in 0..MaxExtra,
        w \in 1..7 }

\* each ticker closed on its own run of dates
GapConfigs ==
    { Config(acct[1], acct[2], acct[3], "Twice a week", portfolio, 1, GapDays,
             [t \in Tickers |->
                 Rows(t, 1, GapDays, IF t = "A" THEN closedA ELSE closedB,
                      TRUE)]) :
        acct \in {<<100000, 0, 20000>>, <<15000, 0, 10000>>,
                  <<15000, 36500, 10000>>},
        portfolio \in {Single, Halves, Under, Over},
        closedA \in Closures(1, GapDays) \ {1..GapDays},
        closedB \in Closures(1, GapDays) \ {1..GapDays} }

\* every cadence over a range long enough for each to come due
CadenceConfigs ==
    { Config(100000, 0, 10000, freq, Single, 1, LongDays,
             [t \in Tickers |->
                 Rows(t, 1, LongDays, Weekends(1, LongDays, w), FALSE)]) :
        freq \in Frequencies, w \in 1..7 }

\* whole weeks of a market that trades every day at one price, with cash
\* for every weekly investment
ScenarioConfigs ==
    { Config(cash, 0, amount, "Weekly", Single, first, first + 7 * k - 1,
             [t \in Tickers |->
                 Rows(t, first, first + 7 * k - 1, {}, FALSE)]) :
        cash \in {100000}, amount \in {10000, 20000},
        first \in 1..MaxStart, k \in 1..MaxWeeks }

Configs ==
    { c \in ValidationConfigs \cup RangeConfigs \cup GapConfigs
                \cup CadenceConfigs \cup ScenarioConfigs :
        c.start_date <= c.end_date }

\* the first call, with arguments and collaborator drawn from from
InitFrom(from) ==
    /\ \E c \in from :
         /\ initial_savings = c.initial_savings
         /\ annual_interest_rate = c.annual_interest_rate
         /\ investment_amount = c.investment_amount
         /\ investment_frequency = c.investment_frequency
         /\ portfolio_structure = c.portfolio_structure
         /\ start_date = c.start_date
         /\ end_date = c.end_date
         /\ provider = c.provider
    /\ pc = "validate"
    /\ error = "none"
    /\ stock_data_dict = <<>>
    /\ daily_rate = <<0, 1>>
    /\ investment_interval = 0
    /\ current_savings = 0
    /\ total_shares_dict = <<>>
    /\ last_known_price_dict = <<>>
    /\ total_invested = 0
    /\ investment_dates = <<>>
    /\ savings_history = <<>>
    /\ portfolio_value_history = <<>>
    /\ days_since_investment = 0
    /\ current_date = 0
    /\ result = NoResult
    /\ fetch_log = <<>>
    /\ price_lookups = 0
    /\ calls = <<>>
    /\ scenario_name = ""
    /\ app_ticker = "A"
    /\ saved_scenarios = <<>>
    /\ current_results = NoResult
    /\ current_scenario_name = Absent
    /\ message = "none"
    /\ pressed = "none"
    /\ clicks = 0

Init == InitFrom(Configs)

Next ==
    \/ Validate
    \/ Download
    \/ Setup
    \/ AccrueInterest
    \/ NoInvestment
    \/ SkipInvestment
    \/ Invest
    \/ RecordSavings
    \/ RecordPortfolio
    \/ Finalize

Spec == Init /\ [][Next]_vars

-----------------------------------------------------------------------------
(* Repeated calls.  A caller calls the function again after it has returned
   or raised.  The locals of the new call are left holding whatever the
   previous call left in them, so that a local the body read before
   assigning it would show. *)

MaxCalls == 3
RerunDays == 5

\* <<investment_amount, portfolio_structure, dates without rows for B>>
RerunShapes ==
    { <<0, Single, {}>>, <<10000, Single, {}>>, <<10000, Halves, {4}>>,
      <<10000, Halves, 1..RerunDays>>, <<10000, <<>>, {}>> }

RerunConfigs ==
    { Config(acct[1], acct[2], shape[1], "Twice a week", shape[2], 1,
             RerunDays,
             [t \in Tickers |->
                 Rows(t, 1, RerunDays, IF t = "B" THEN shape[3] ELSE {},
                      TRUE)]) :
        acct \in {<<15000, 0>>, <<15000, 36500>>}, shape \in RerunShapes }

\* the arguments and collaborator of the call in progress
CurrentConfig ==
    Config(initial_savings, annual_interest_rate, investment_amount,
           investment_frequency, portfolio_structure, start_date, end_date,
           provider)

\* what the call gave its caller: the exception or the returned dict
Outcome == [error |-> error, result |-> result]

Call ==
    /\ pc \in {"done", "raised"}
    /\ Len(calls) < MaxCalls - 1
    /\ calls' = Append(calls, [config |-> CurrentConfig, outcome |-> Outcome])
    /\ \E c \in RerunConfigs :
         /\ initial_savings' = c.initial_savings
         /\ annual_interest_rate' = c.annual_interest_rate
         /\ investment_amount' = c.investment_amount
         /\ investment_frequency' = c.investment_frequency
         /\ portfolio_structure' = c.portfolio_structure
         /\ start_date' = c.start_date
         /\ end_date' = c.end_date
         /\ provider' = c.provider
    /\ pc' = "validate"
    /\ error' = "none"
    /\ result' = NoResult
    /\ fetch_log' = <<>>
    /\ price_lookups' = 0
    /\ UNCHANGED <<stock_data_dict, daily_rate, investment_interval,
                   current_savings, total_shares_dict, last_known_price_dict,
                   total_invested, investment_dates, savings_history,
                   portfolio_value_history, days_since_investment,
                   current_date>>
    /\ UNCHANGED app

InitRerun == InitFrom(RerunConfigs)

NextRerun ==
    \/ Next
    \/ Call

SpecRerun == InitRerun /\ [][NextRerun]_vars

-----------------------------------------------------------------------------
(* The app, src/main.py lines 26-27 and 32-157.  The widgets of the
   arguments are the variables initial_savings ... end_date; the app passes
   no portfolio_structure.  Every run of the script starts from the widget
   values and the session state; a message lasts until the next run. *)

MaxClicks == 2

\* the keyword arguments of the call at main.py lines 114-122
AppKeywords ==
    {"initial_savings", "annual_interest_rate", "investment_amount",
     "investment_frequency", "ticker", "start_date", "end_date"}

\* the parameters of calculate_dca_returns, calculations.py lines 106-114;
\* none has a default
Parameters ==
    {"initial_savings", "annual_interest_rate", "investment_amount",
     "investment_frequency", "portfolio_structure", "start_date", "end_date"}

\* Python binds the keywords to the parameters before the body runs: an
\* unexpected keyword or a missing required parameter is a TypeError
BindingFails == ~(AppKeywords \subseteq Parameters /\ Parameters \subseteq AppKeywords)

\* the dict a call returns, named by the arguments it was given
AppResult ==
    [status |-> "returned", initial_savings |-> initial_savings,
     investment_amount |-> investment_amount]

\* what the call of lines 114-122 can give: a TypeError when the binding
\* fails, else the ValueError or the dict of calculate_dca_returns
CallOutcomes ==
    IF BindingFails
    THEN {[error |-> "TypeError", result |-> NoResult]}
    ELSE {[error |-> "ValueError", result |-> NoResult],
          [error |-> "none", result |-> AppResult]}

\* the params dict of lines 126-134
AppParams ==
    [initial_savings |-> initial_savings,
     investment_amount |-> investment_amount,
     investment_frequency |-> investment_frequency,
     annual_interest_rate |-> annual_interest_rate,
     start_date |-> start_date, end_date |-> end_date,
     ticker |-> app_ticker]

\* save_scenario, lines 168-174
save_scenario(name, results, params) ==
    [n \in DOMAIN saved_scenarios \cup {name} |->
        IF n = name
        THEN [results |-> results, params |-> params, timestamp |-> "now"]
        ELSE saved_scenarios[n]]

\* the current scenario name set before the call is attempted
CurrentNameAfterAttempt(outcome) == scenario_name

\* line 137, reached only when the call returned
CurrentNameAfter(outcome) ==
    IF outcome.error = "none" THEN scenario_name ELSE current_scenario_name

\* lines 105-147: the 'Calculate & Save' button
CalculateAndSave ==
    IF initial_savings > 0
    THEN IF scenario_name = ""
         THEN /\ message' = "warning: Please enter a scenario name"
              /\ UNCHANGED <<saved_scenarios, current_results,
                             current_scenario_name>>
         ELSE IF scenario_name \in DOMAIN saved_scenarios
         THEN /\ message' = "warning: Scenario name already exists"
              /\ UNCHANGED <<saved_scenarios, current_results,
                             current_scenario_name>>
         ELSE \E outcome \in CallOutcomes :
                /\ saved_scenarios' =
                       IF outcome.error = "none"
                       THEN save_scenario(scenario_name, outcome.result,
                                          AppParams)
                       ELSE saved_scenarios
                /\ current_results' =
                       IF outcome.error = "none" THEN outcome.result
                       ELSE current_results
                /\ current_scenario_name' = CurrentNameAfter(outcome)
                /\ message' =
                       IF outcome.error = "none" THEN "none"
                       ELSE IF outcome.error = "ValueError"
                       THEN "error: ValueError"
                       ELSE "error: An error occurred"
    ELSE /\ message' = "warning: Please enter a valid initial savings amount"
         /\ UNCHANGED <<saved_scenarios, current_results,
                        current_scenario_name>>

\* lines 150-157: the 'Clear All' button
ClearAll ==
    /\ saved_scenarios' = <<>>
    /\ current_results' = NoResult
    /\ current_scenario_name' = Absent
    /\ message' = "none"

\* the buttons the script renders, lines 105 and 150-151
RenderedButtons ==
    {"Calculate & Save"}
        \cup (IF DOMAIN saved_scenarios # {} THEN {"Clear All"} ELSE {})

\* values a user can enter in the widgets of lines 41-99
AppNames == {"", "a", "b"}
AppSavings == {0, 100000}
AppAmounts == {0, 10000}
AppFrequencies == {"Twice a week", "Weekly", "Every two weeks", "Monthly"}

\* a run of the script after a widget was edited: no button is pressed
EditInputs ==
    /\ \E name \in AppNames, cash \in AppSavings, amount \in AppAmounts,
          freq \in AppFrequencies, tick \in Tickers :
         /\ scenario_name' = name
         /\ initial_savings' = cash
         /\ investment_amount' = amount
         /\ investment_frequency' = freq
         /\ app_ticker' = tick
    /\ message' = "none"
    /\ pressed' = "none"
    /\ UNCHANGED <<saved_scenarios, current_results, current_scenario_name,
                   clicks>>
    /\ UNCHANGED <<annual_interest_rate, portfolio_structure, start_date,
                   end_date, provider, calls>>
    /\ UNCHANGED <<pc, error, stock_data_dict, daily_rate,
                   investment_interval, current_savings, total_shares_dict,
                   last_known_price_dict, total_invested, investment_dates,
                   savings_history, portfolio_value_history,
                   days_since_investment, current_date, result, fetch_log,
                   price_lookups>>

\* a run of the script after a button was pressed
Click ==
    /\ clicks < MaxClicks
    /\ clicks' = clicks + 1
    /\ \E button \in RenderedButtons :
         /\ pressed' = button
         /\ IF button = "Calculate & Save" THEN CalculateAndSave
            ELSE ClearAll
    /\ UNCHANGED <<scenario_name, app_ticker>>
    /\ UNCHANGED <<inputs, calls>>
    /\ UNCHANGED <<pc, error, stock_data_dict, daily_rate,
                   investment_interval, current_savings, total_shares_dict,
                   last_known_price_dict, total_invested, investment_dates,
                   savings_history, portfolio_value_history,
                   days_since_investment, current_date, result, fetch_log,
                   price_lookups>>

\* the widgets as the page first shows them (stand-ins for 26000.00, 2.5 %,
\* 500.00, 'Weekly', 'VFV.TO' and the dates); ticker B has no price data
AppDefaults ==
    { Config(100000, 0, 10000, "Weekly", <<>>, 1, MaxDays,
             [t \in Tickers |->
                 IF t = "A" THEN Rows(t, 1, MaxDays, {}, TRUE) ELSE <<>>]) }

InitApp == InitFrom(AppDefaults)

NextApp ==
    \/ EditInputs
    \/ Click

SpecApp == InitApp /\ [][NextApp]_vars

-----------------------------------------------------------------------------
(* Vocabulary of the properties, read from the inputs and the outputs *)

Allocated == KeySet(portfolio_structure)

\* the collaborator's rows give ticker t a closing price for date d
HasPrice(t, d) == \E i \in 1..Len(provider[t]) : provider[t][i].Date = d

CloseOn(t, d) ==
    provider[t][CHOOSE i \in 1..Len(provider[t]) : provider[t][i].Date = d].Close

AllPriced(d) == \A t \in Allocated : HasPrice(t, d)

EventDates == {investment_dates[i].date : i \in 1..Len(investment_dates)}

Simulating == pc \in {"loop", "gate", "record", "value"}

Returned == pc = "done"

\* the gate of date d has been passed
GatePassed(d) ==
    /\ Simulating \/ Returned
    /\ d >= start_date
    /\ d < current_date \/ (d = current_date /\ pc # "gate")

CalendarDays(history) ==
    /\ Len(history) = end_date - start_date + 1
    /\ \A i \in 1..Len(history) : history[i].date = start_date + i - 1

\* every quotient the model forms is exact, so that its integers are the
\* numbers of the code
ArithmeticExact ==
    /\ Simulating =>
         /\ (current_savings * daily_rate[1]) % daily_rate[2] = 0
         /\ \A i \in 1..Len(investment_dates) : \A t \in Allocated :
              LET a == investment_dates[i].allocations[t] IN
                /\ a.amount * AllocDen
                     = investment_dates[i].total_amount * AllocationOf(t)
                /\ a.shares * a.price = a.amount * ShareDen
         /\ \A t \in DOMAIN total_shares_dict :
              /\ (total_shares_dict[t] * last_known_price_dict[t]) % ShareDen = 0
              /\ investment_amount > 0 =>
                   (total_shares_dict[t] * final_price(t)) % ShareDen = 0

-----------------------------------------------------------------------------
(* Properties *)

\* C1: once calculate_dca_returns has returned, savings_history and
\* portfolio_value_history each hold exactly (end_date - start_date) + 1
\* entries, the i-th dated the i-th calendar day of [start_date, end_date]:
\* ascending, no date twice, none missing, trading day or not.
C1_OneEntryPerCalendarDay ==
    Returned =>
        /\ CalendarDays(result.savings_history)
        /\ CalendarDays(result.portfolio_value_history)

\* C1 witness: a returned run of a week or more that invested and went over
\* a day on which an allocated ticker had no price.
C1_Witness ==
    /\ Returned
    /\ end_date - start_date >= 6
    /\ result.num_investments >= 1
    /\ \E d \in start_date..end_date : ~AllPriced(d)

\* C2: an investment event is recorded, and a share count changes, only on a
\* date for which every allocated ticker has a price; every recorded event is
\* dated such a date and covers every allocated ticker.
C2_EventOnlyWhenAllPriced ==
    \A i \in 1..Len(investment_dates) :
        /\ AllPriced(investment_dates[i].date)
        /\ DOMAIN investment_dates[i].allocations = Allocated

C2_NoPartialPurchase ==
    pc = "gate" /\ ~AllPriced(current_date)
        => /\ total_shares_dict' = total_shares_dict
           /\ investment_dates' = investment_dates

\* C2 (basket atomicity): both parts, in every state and on every step.
C2_BasketAtomicity ==
    [](C2_EventOnlyWhenAllPriced) /\ [][C2_NoPartialPurchase]_vars

\* C2 witness: an investment was due and was skipped on a date for which one
\* allocated ticker had a price and another had none.
C2_Witness ==
    /\ pc = "record"
    /\ days_since_investment * IntervalDen >= investment_interval
    /\ current_savings >= investment_amount
    /\ \E t \in Allocated : HasPrice(t, current_date)
    /\ \E t \in Allocated : ~HasPrice(t, current_date)

\* C3: an investment that is due (counter >= interval, cash >= amount) and is
\* skipped for a missing price leaves the counter at its incremented value,
\* and the event then executes on the first later simulated date for which
\* every allocated ticker has a price, and on no date before it.
LastEventBefore(d) ==
    LET earlier == {e \in EventDates : e < d}
    IN  IF earlier = {} THEN start_date - 1
        ELSE CHOOSE e \in earlier : \A f \in earlier : f <= e

Recorded(d) == d >= start_date /\ d - start_date + 1 <= Len(savings_history)

BalanceOn(d) == savings_history[d - start_date + 1].savings_balance

DueAndSkipped(d) ==
    /\ investment_amount > 0
    /\ Recorded(d)
    /\ d \notin EventDates
    /\ (d - LastEventBefore(d)) * IntervalDen >= investment_interval
    /\ BalanceOn(d) >= investment_amount
    /\ ~AllPriced(d)

C3_ExecutesOnFirstPricedDate ==
    \A d0 \in start_date..end_date : \A d1 \in (d0 + 1)..end_date :
        ( /\ GatePassed(d1)
          /\ AllPriced(d1)
          /\ \A d \in (d0 + 1)..(d1 - 1) : ~AllPriced(d)
          /\ DueAndSkipped(d0) )
        => /\ d1 \in EventDates
           /\ \A d \in d0..(d1 - 1) : d \notin EventDates

C3_CounterKept ==
    ( /\ pc = "gate"
      /\ investment_amount > 0
      /\ (days_since_investment + 1) * IntervalDen >= investment_interval
      /\ current_savings >= investment_amount
      /\ ~AllPriced(current_date) )
    => days_since_investment' = days_since_investment + 1

\* C3 (skip and retry): both parts, in every state and on every step.
C3_SkipAndRetry ==
    [](C3_ExecutesOnFirstPricedDate) /\ [][C3_CounterKept]_vars

\* C3 witness: an event executed two or more days after the date on which it
\* was first due and skipped.
C3_Witness ==
    \E d0 \in start_date..end_date :
        /\ DueAndSkipped(d0)
        /\ DueAndSkipped(d0 + 1)
        /\ (d0 + 2) \in EventDates

\* C4: a step of the gate that changes the cash, the invested total, the
\* event list or a share count changes all of them together: the cash falls
\* by the periodic amount once, total_invested rises by it, one event dated
\* today is appended, every allocated ticker's shares rise and the counter
\* becomes 0.
C4_EventStep ==
    ( /\ pc = "gate"
      /\ \/ current_savings' # current_savings
         \/ total_invested' # total_invested
         \/ investment_dates' # investment_dates
         \/ total_shares_dict' # total_shares_dict )
    => /\ current_savings' = current_savings - investment_amount
       /\ total_invested' = total_invested + investment_amount
       /\ Len(investment_dates') = Len(investment_dates) + 1
       /\ SubSeq(investment_dates', 1, Len(investment_dates)) = investment_dates
       /\ investment_dates'[Len(investment_dates')].date = current_date
       /\ investment_dates'[Len(investment_dates')].total_amount
              = investment_amount
       /\ \A t \in Allocated : total_shares_dict'[t] > total_shares_dict[t]
       /\ days_since_investment' = 0

\* C4: every step of a run is such a step or changes none of the four.
C4_EventIsOneStep == [][C4_EventStep]_vars

\* C4 witness: an event has just executed over two tickers.
C4_Witness ==
    /\ pc = "record"
    /\ current_date \in EventDates
    /\ days_since_investment = 0
    /\ Cardinality(Allocated) = 2
    /\ current_savings = initial_savings - Len(investment_dates) * investment_amount

\* C5: throughout a run and in the returned dict, total_invested is the sum
\* of total_amount over the recorded events and num_investments is their
\* number, so total_invested = num_investments * investment_amount.
EventTotal(events) ==
    SumSeq([i \in 1..Len(events) |-> events[i].total_amount])

C5_InvestedIsSumOfEvents ==
    /\ (Simulating \/ Returned) =>
         /\ total_invested = EventTotal(investment_dates)
         /\ total_invested = Len(investment_dates) * investment_amount
    /\ Returned =>
         /\ result.total_invested = EventTotal(result.investment_dates)
         /\ result.num_investments = Len(result.investment_dates)
         /\ result.total_invested
                = result.num_investments * investment_amount

\* C5 witness: a returned run with two or more events whose fractions do not
\* sum to 1.
C5_Witness ==
    /\ Returned
    /\ result.num_investments >= 2
    /\ total_allocation # AllocDen

\* C6: with 'Twice a week', cash sufficient throughout and a price for every
\* ticker on every date, the spacings of successive events alternate between
\* 3 and 4 days.
EventGap(i) == investment_dates[i + 1].date - investment_dates[i].date

C6_AlternatingSpacing ==
    ( /\ Simulating \/ Returned
      /\ investment_frequency = "Twice a week"
      /\ investment_amount > 0
      /\ \A d \in start_date..end_date : AllPriced(d)
      /\ \A i \in 1..Len(savings_history) :
             savings_history[i].savings_balance >= investment_amount )
    => \A i \in 1..(Len(investment_dates) - 1) :
           /\ EventGap(i) \in {3, 4}
           /\ i > 1 => EventGap(i) # EventGap(i - 1)

\* C7: with investment_amount > 0 the call raises the allocation error
\* exactly when portfolio_structure is empty or its fractions sum outside
\* [0.99, 1.01] (0.995 and 1.005 pass, 0.98 and 1.02 fail); with amount 0 it
\* never does. After the error nothing was fetched, no day was simulated and
\* nothing is returned.
FractionSum == SumSeq([i \in 1..Len(portfolio_structure) |-> portfolio_structure[i][2]])

MustReject ==
    /\ investment_amount > 0
    /\ \/ Len(portfolio_structure) = 0
       \/ 100 * FractionSum < 99 * AllocDen
       \/ 100 * FractionSum > 101 * AllocDen

NothingSimulated ==
    /\ pc = "raised"
    /\ result = NoResult
    /\ savings_history = <<>>
    /\ portfolio_value_history = <<>>
    /\ investment_dates = <<>>
    /\ price_lookups = 0

C7_AllocationValidation ==
    /\ pc # "validate" => (error = "ValueError: portfolio" <=> MustReject)
    /\ error = "ValueError: portfolio" =>
         /\ NothingSimulated
         /\ fetch_log = <<>>
         /\ stock_data_dict = <<>>
    /\ (pc # "validate" /\ investment_amount > 0) =>
         /\ 1000 * FractionSum \in {995 * AllocDen, 1005 * AllocDen}
              => error # "ValueError: portfolio"
         /\ 100 * FractionSum \in {98 * AllocDen, 102 * AllocDen}
              => error = "ValueError: portfolio"

\* C7 witness: fractions summing to 0.98 were rejected.
C7_Witness ==
    /\ error = "ValueError: portfolio"
    /\ 100 * FractionSum = 98 * AllocDen

\* C8: the rows of every allocated ticker are fetched, in order, before the
\* first day is simulated and nothing is fetched afterwards; when the
\* collaborator has no rows for an allocated ticker the error is raised, no
\* day is simulated and nothing is returned.
C8_FetchedUpFront ==
    /\ ((Simulating \/ Returned) /\ investment_amount > 0) =>
         /\ fetch_log = [i \in 1..Len(portfolio_structure) |->
                            portfolio_structure[i][1]]
         /\ DOMAIN stock_data_dict = Allocated
         /\ \A t \in Allocated :
              stock_data_dict[t] = provider[t] /\ provider[t] # <<>>
    /\ error = "ValueError: no stock data" =>
         /\ NothingSimulated
         /\ provider[fetch_log[Len(fetch_log)]] = <<>>

C8_NoFetchInLoop ==
    pc # "download" =>
        fetch_log' = fetch_log /\ stock_data_dict' = stock_data_dict

\* C8: fetched up front in every state, and no step after the download
\* loop fetches.
C8_PriceDataBeforeLoop ==
    [](C8_FetchedUpFront) /\ [][C8_NoFetchInLoop]_vars

\* C8 witness: the fetch of the second ticker failed after the first
\* succeeded.
C8_Witness ==
    /\ error = "ValueError: no stock data"
    /\ Len(fetch_log) = 2
    /\ DOMAIN stock_data_dict = {fetch_log[1]}

\* C9: with investment_amount = 0, whatever the allocation, there is no
\* event, total_invested is 0, every portfolio value recorded is 0,
\* final_portfolio_value is 0, and no rows are fetched and no price is
\* looked up.
AllZero(history) ==
    \A i \in 1..Len(history) : history[i].portfolio_value = 0

C9_SavingsOnly ==
    investment_amount = 0 =>
        /\ investment_dates = <<>>
        /\ total_invested = 0
        /\ AllZero(portfolio_value_history)
        /\ fetch_log = <<>>
        /\ stock_data_dict = <<>>
        /\ price_lookups = 0
        /\ Returned =>
             /\ result.investment_dates = <<>>
             /\ result.num_investments = 0
             /\ result.total_invested = 0
             /\ result.final_portfolio_value = 0
             /\ result.final_stock_prices = <<>>
             /\ AllZero(result.portfolio_value_history)
             /\ Len(result.portfolio_value_history) = end_date - start_date + 1

\* C9 witness: a savings-only run of a week or more, with a non-empty
\* allocation and a positive balance, has returned.
C9_Witness ==
    /\ Returned
    /\ investment_amount = 0
    /\ portfolio_structure # <<>>
    /\ initial_savings > 0
    /\ end_date - start_date >= 6

\* C10: every event records, under each allocated ticker's key, the amount
\* investment_amount * fraction, that ticker's own closing price on the
\* event's date, and shares = amount / price; each ticker's share count is
\* the sum of the shares its events record.
FractionOf(t) ==
    portfolio_structure[CHOOSE i \in 1..Len(portfolio_structure) :
                            portfolio_structure[i][1] = t][2]

SharesRecorded(events, t) ==
    SumSeq([i \in 1..Len(events) |-> events[i].allocations[t].shares])

SplitByAllocation(events) ==
    \A i \in 1..Len(events) :
        /\ DOMAIN events[i].allocations = Allocated
        /\ \A t \in Allocated :
             LET a == events[i].allocations[t] IN
               /\ a.amount * AllocDen = investment_amount * FractionOf(t)
               /\ a.price = CloseOn(t, events[i].date)
               /\ a.shares * a.price = a.amount * ShareDen

C10_AllocationSplit ==
    /\ (Simulating \/ Returned) =>
         /\ SplitByAllocation(investment_dates)
         /\ \A t \in Allocated :
              total_shares_dict[t] = SharesRecorded(investment_dates, t)
    /\ Returned =>
         /\ SplitByAllocation(result.investment_dates)
         /\ \A t \in Allocated :
              result.total_shares[t]
                  = SharesRecorded(result.investment_dates, t)

\* C10 witness: {A: 0.5, B: 0.5} with amount 200 has bought 100/price of each
\* ticker, at two different prices.
C10_Witness ==
    /\ Returned
    /\ portfolio_structure = << <<"A", 100>>, <<"B", 100>> >>
    /\ investment_amount = 20000
    /\ \E i \in 1..Len(result.investment_dates) :
         LET a == result.investment_dates[i].allocations IN
           /\ a["A"].amount = 10000 /\ a["B"].amount = 10000
           /\ a["A"].price # a["B"].price
           /\ a["A"].shares * a["A"].price = 10000 * ShareDen
           /\ a["B"].shares * a["B"].price = 10000 * ShareDen

\* C11: with investment_amount > 0, the portfolio value recorded for a date
\* is the sum, over the tickers, of the shares held on that date times the
\* ticker's own most recent closing price on or before that date; a ticker
\* without a price that day is valued at its previous price and the others
\* at theirs.
MostRecentClose(t, d) ==
    LET dates == {provider[t][i].Date : i \in 1..Len(provider[t])}
        upto == {x \in dates : x <= d}
    IN  IF upto = {} THEN 0
        ELSE CloseOn(t, CHOOSE x \in upto : \A y \in upto : y <= x)

SharesAsOf(t, d) ==
    SumSeq([i \in 1..Len(investment_dates) |->
               IF investment_dates[i].date <= d
               THEN investment_dates[i].allocations[t].shares ELSE 0])

ForwardFilledValue(d) ==
    SumSeq([i \in 1..Len(portfolio_structure) |->
               (SharesAsOf(portfolio_structure[i][1], d)
                    * MostRecentClose(portfolio_structure[i][1], d))
                   \div ShareDen])

C11_ForwardFilledValuation ==
    (investment_amount > 0 /\ (Simulating \/ Returned)) =>
        \A i \in 1..Len(portfolio_value_history) :
            portfolio_value_history[i].portfolio_value
                = ForwardFilledValue(portfolio_value_history[i].date)

\* C11 witness: a value was recorded for a date on which one held ticker had
\* no price and another held ticker had a price different from its previous
\* one.
C11_Witness ==
    /\ investment_amount > 0
    /\ Simulating
    /\ \E i \in 1..Len(portfolio_value_history) :
         LET d == portfolio_value_history[i].date IN
           /\ \E t \in Allocated : SharesAsOf(t, d) > 0 /\ ~HasPrice(t, d)
           /\ \E t \in Allocated :
                /\ SharesAsOf(t, d) > 0
                /\ HasPrice(t, d)
                /\ CloseOn(t, d) # MostRecentClose(t, d - 1)

\* C12: a ticker without a price on the first simulated date keeps the last
\* known price 0 on every date before the first date it has a price; on
\* those dates it holds no shares, its value and the recorded portfolio value
\* are 0, and no error is raised.
FirstPricedDate(t) ==
    LET priced == {d \in start_date..end_date : HasPrice(t, d)}
    IN  IF priced = {} THEN end_date + 1
        ELSE CHOOSE d \in priced : \A e \in priced : d <= e

C12_ZeroUntilFirstPrice ==
    \A t \in Allocated :
        (investment_amount > 0 /\ ~HasPrice(t, start_date)) =>
            /\ (Simulating /\ current_date < FirstPricedDate(t)) =>
                 /\ last_known_price_dict[t] = 0
                 /\ total_shares_dict[t] * last_known_price_dict[t] = 0
                 /\ error = "none"
            /\ (Simulating \/ Returned) =>
                 \A i \in 1..Len(portfolio_value_history) :
                     portfolio_value_history[i].date < FirstPricedDate(t) =>
                         /\ SharesAsOf(t, portfolio_value_history[i].date) = 0
                         /\ portfolio_value_history[i].portfolio_value = 0

\* C12 witness: four values were recorded while a ticker still had no price,
\* another ticker had prices and the investment was already due.
C12_Witness ==
    /\ investment_amount > 0
    /\ pc = "loop"
    /\ Len(portfolio_value_history) >= 4
    /\ days_since_investment * IntervalDen >= investment_interval
    /\ current_savings >= investment_amount
    /\ \E t \in Allocated :
         /\ ~HasPrice(t, start_date)
         /\ current_date < FirstPricedDate(t)
         /\ FirstPricedDate(t) <= end_date
    /\ \E t \in Allocated : HasPrice(t, start_date)

\* C13: with rate 0, weekly cadence, one ticker at fraction 1 priced at a
\* constant p on every date, cash for every investment and a range of exactly
\* k weeks, the result has k events, on the 7th, 14th, ... date, each buying
\* amount / p shares; total_invested and final_portfolio_value are k * amount
\* and final_savings is initial_savings - k * amount.
Weeks == (end_date - start_date + 1) \div 7

FlatPrice(t) ==
    \A d \in start_date..end_date :
        HasPrice(t, d) /\ CloseOn(t, d) = CloseOn(t, start_date)

WeeklyScenario ==
    /\ annual_interest_rate = 0
    /\ investment_frequency = "Weekly"
    /\ investment_amount > 0
    /\ Len(portfolio_structure) = 1
    /\ portfolio_structure[1][2] = AllocDen
    /\ FlatPrice(portfolio_structure[1][1])
    /\ (end_date - start_date + 1) % 7 = 0
    /\ initial_savings >= Weeks * investment_amount

C13_WeeklyScenario ==
    (WeeklyScenario /\ Returned) =>
        LET t == portfolio_structure[1][1]
            p == CloseOn(t, start_date)
        IN  /\ result.num_investments = Weeks
            /\ Len(result.investment_dates) = Weeks
            /\ \A j \in 1..Len(result.investment_dates) :
                 /\ result.investment_dates[j].date = start_date + 7 * j - 1
                 /\ result.investment_dates[j].allocations[t].shares * p
                        = investment_amount * ShareDen
            /\ result.total_shares[t] * p
                   = Weeks * investment_amount * ShareDen
            /\ result.total_invested = Weeks * investment_amount
            /\ result.final_portfolio_value = Weeks * investment_amount
            /\ result.final_savings
                   = initial_savings - Weeks * investment_amount

\* C13 witness: the run of four weeks with cash 1000.00, amount 100.00 and
\* price 10.00 has returned.
C13_Witness ==
    /\ WeeklyScenario
    /\ Returned
    /\ Weeks = 4
    /\ initial_savings = 100000
    /\ investment_amount = 10000
    /\ CloseOn(portfolio_structure[1][1], start_date) = 1000
    /\ result.num_investments = 4
    /\ result.final_savings = 60000

\* C14: with annual rate 0 the balance recorded for every date is
\* initial_savings minus the amounts invested up to and including that date,
\* and savings_interest_earned is 0; with investment_amount 0 final_savings
\* is initial_savings and total_return is 0.
InvestedUpTo(d) ==
    SumSeq([i \in 1..Len(investment_dates) |->
               IF investment_dates[i].date <= d
               THEN investment_dates[i].total_amount ELSE 0])

C14_ZeroInterestConservation ==
    annual_interest_rate = 0 =>
        /\ (Simulating \/ Returned) =>
             \A i \in 1..Len(savings_history) :
                 savings_history[i].savings_balance
                     = initial_savings - InvestedUpTo(savings_history[i].date)
        /\ Returned =>
             /\ result.savings_history = savings_history
             /\ result.savings_interest_earned = 0
             /\ investment_amount = 0 =>
                  /\ result.final_savings = initial_savings
                  /\ result.total_return = 0

\* C14 witness: a run at rate 0 has returned after two events, with a
\* balance recorded before and after them.
C14_Witness ==
    /\ annual_interest_rate = 0
    /\ Returned
    /\ Len(investment_dates) >= 2
    /\ result.final_savings < initial_savings
    /\ \E i \in 1..Len(savings_history) :
         savings_history[i].savings_balance = initial_savings
    /\ \E i \in 1..Len(savings_history) :
         savings_history[i].savings_balance
             = initial_savings - 2 * investment_amount

\* C15: a returned result has return_rate 0 when initial_savings is 0 and
\* investment_return_rate 0 when total_invested is 0; otherwise they are
\* total_return / initial_savings * 100 and
\* investment_return / total_invested * 100; no error is raised. A rate is a
\* fraction <<numerator, denominator>>.
IsZeroRate(r) == r[1] = 0 /\ r[2] # 0

IsRateOf(r, x, y) == r[2] = y /\ r[1] = x * 100

C15_DegenerateRates ==
    Returned =>
        /\ error = "none"
        /\ IF initial_savings = 0
           THEN IsZeroRate(result.return_rate)
           ELSE IsRateOf(result.return_rate, result.total_return,
                         initial_savings)
        /\ IF result.total_invested = 0
           THEN IsZeroRate(result.investment_return_rate)
           ELSE IsRateOf(result.investment_return_rate,
                         result.investment_return, result.total_invested)

\* C15 witness: a run with investment_amount > 0 and initial_savings 0 has
\* returned without any event.
C15_Witness ==
    /\ Returned
    /\ initial_savings = 0
    /\ investment_amount > 0
    /\ result.total_invested = 0
    /\ Len(savings_history) >= 2

\* C16: with investment_amount > 0 the final price of each ticker is its
\* close on the last simulated date if the series has that date, and
\* otherwise the close of the chronologically last row of its series, which
\* need not be the last known price of the run; final_portfolio_value is the
\* sum over the allocated tickers of final shares times final price.
RawLastClose(t) ==
    LET dates == {provider[t][i].Date : i \in 1..Len(provider[t])}
    IN  CloseOn(t, CHOOSE x \in dates : \A y \in dates : y <= x)

ExpectedFinalPrice(t) ==
    IF HasPrice(t, end_date) THEN CloseOn(t, end_date) ELSE RawLastClose(t)

C16_FinalPricing ==
    (Returned /\ investment_amount > 0) =>
        /\ DOMAIN result.final_stock_prices = Allocated
        /\ \A t \in Allocated :
             result.final_stock_prices[t] = ExpectedFinalPrice(t)
        /\ result.final_portfolio_value =
             SumSeq([i \in 1..Len(portfolio_structure) |->
                 (result.total_shares[portfolio_structure[i][1]]
                    * ExpectedFinalPrice(portfolio_structure[i][1]))
                     \div ShareDen])

\* C16 witness: a held ticker has no price on the last date and its final
\* price differs from the last known price of the run.
C16_Witness ==
    /\ Returned
    /\ investment_amount > 0
    /\ \E t \in Allocated :
         /\ ~HasPrice(t, end_date)
         /\ result.total_shares[t] > 0
         /\ last_known_price_dict[t] > 0
         /\ result.final_stock_prices[t] # last_known_price_dict[t]

\* C17: on every date interest is accrued first, the gate is evaluated on
\* the balance after interest, then the balance is recorded, then the
\* portfolio value: the balance recorded for a date is the previous recorded
\* balance (initial_savings on the first date) times (1 + daily rate), minus
\* investment_amount exactly when an event executed on that date, and the
\* value recorded for the date of an event includes the shares bought then.
PreviousBalance(i) ==
    IF i = 1 THEN initial_savings ELSE savings_history[i - 1].savings_balance

\* den * (balance after interest), for a balance of b before it
AfterInterest(b) == b * (daily_rate[2] + daily_rate[1])

Deduction(d) == IF d \in EventDates THEN investment_amount ELSE 0

C17_RecordedBalances ==
    \A i \in 1..Len(savings_history) :
        LET d == savings_history[i].date
        IN  /\ savings_history[i].savings_balance * daily_rate[2]
                 = AfterInterest(PreviousBalance(i))
                       - Deduction(d) * daily_rate[2]
            /\ d \in EventDates =>
                 AfterInterest(PreviousBalance(i))
                     >= investment_amount * daily_rate[2]

C17_Positions ==
    LET days == Len(savings_history)
    IN  /\ pc \in {"loop", "gate", "record"} =>
             Len(portfolio_value_history) = days
        /\ pc = "value" =>
             /\ Len(portfolio_value_history) = days - 1
             /\ savings_history[days].date = current_date
             /\ savings_history[days].savings_balance = current_savings
        /\ pc = "gate" =>
             /\ current_date = start_date + days
             /\ current_date \notin EventDates
             /\ current_savings * daily_rate[2]
                    = AfterInterest(PreviousBalance(days + 1))
        /\ pc = "record" =>
             /\ current_date = start_date + days
             /\ current_savings * daily_rate[2]
                    = AfterInterest(PreviousBalance(days + 1))
                          - Deduction(current_date) * daily_rate[2]

C17_EventDayValue ==
    \A i \in 1..Len(portfolio_value_history) :
        LET d == portfolio_value_history[i].date
        IN  d \in EventDates =>
                /\ portfolio_value_history[i].portfolio_value
                       = ForwardFilledValue(d)
                /\ \A j \in 1..Len(investment_dates) :
                     investment_dates[j].date = d =>
                         portfolio_value_history[i].portfolio_value >=
                             SumSeq([k \in 1..Len(portfolio_structure) |->
                                 (investment_dates[j].allocations[
                                      portfolio_structure[k][1]].shares
                                  * investment_dates[j].allocations[
                                      portfolio_structure[k][1]].price)
                                     \div ShareDen])

C17_OrderOfSteps ==
    Simulating => C17_RecordedBalances /\ C17_Positions /\ C17_EventDayValue

\* C17 witness: at a positive rate the value of the date of a second event
\* has been recorded, after a date without an event.
C17_Witness ==
    /\ pc = "loop"
    /\ daily_rate[1] > 0
    /\ Len(investment_dates) >= 2
    /\ Len(portfolio_value_history) >= 5
    /\ portfolio_value_history[Len(portfolio_value_history)].date
           \in EventDates
    /\ portfolio_value_history[Len(portfolio_value_history)].portfolio_value
           > 0
    /\ \E i \in 1..Len(savings_history) :
         savings_history[i].date \notin EventDates

\* C18: two calls with the same arguments and the same price series have the
\* same outcome, whatever calls were made before or in between, and every
\* call enters its loop with current_savings = initial_savings, counter 0,
\* no shares, last known prices 0, nothing invested and empty histories.
C18_SameOutcome ==
    /\ \A i \in 1..Len(calls) : \A j \in 1..Len(calls) :
         calls[i].config = calls[j].config =>
             calls[i].outcome = calls[j].outcome
    /\ pc \in {"done", "raised"} =>
         \A i \in 1..Len(calls) :
             calls[i].config = CurrentConfig => calls[i].outcome = Outcome

C18_FreshStart ==
    /\ pc = "download" =>
         \A t \in DOMAIN stock_data_dict :
             t \in Allocated /\ stock_data_dict[t] = provider[t]
    /\ (pc = "loop" /\ current_date = start_date - 1) =>
         /\ current_savings = initial_savings
         /\ days_since_investment = 0
         /\ DOMAIN total_shares_dict = KeySet(portfolio_structure)
         /\ DOMAIN last_known_price_dict = KeySet(portfolio_structure)
         /\ \A t \in KeySet(portfolio_structure) :
              total_shares_dict[t] = 0 /\ last_known_price_dict[t] = 0
         /\ total_invested = 0
         /\ investment_dates = <<>>
         /\ savings_history = <<>>
         /\ portfolio_value_history = <<>>

C18_NoRetainedState == C18_SameOutcome /\ C18_FreshStart

\* C18 witness: a third call has returned with an event, after a first call
\* with the same arguments and a second one with other arguments and another
\* outcome.
C18_Witness ==
    /\ Len(calls) = 2
    /\ pc = "done"
    /\ result.num_investments >= 1
    /\ calls[1].config = CurrentConfig
    /\ calls[2].config # CurrentConfig
    /\ calls[2].outcome # Outcome
    /\ calls[2].outcome.error = "none"

\* C19: on a date where the investment is due (counter and balance after
\* interest suffice) but some ticker has no price, the attempt leaves the
\* balance, every share count, total_invested and the list of events
\* unchanged and raises nothing; no record with missing allocations is ever
\* in the list.
AttemptWithoutPrice ==
    /\ pc = "gate"
    /\ investment_amount > 0
    /\ (days_since_investment + 1) * IntervalDen >= investment_interval
    /\ current_savings >= investment_amount
    /\ ~AllPriced(current_date)

C19_SkipStep ==
    AttemptWithoutPrice =>
        /\ current_savings' = current_savings
        /\ total_shares_dict' = total_shares_dict
        /\ total_invested' = total_invested
        /\ investment_dates' = investment_dates
        /\ error' = "none"
        /\ pc' = "record"

C19_NoPartialRecord ==
    (Simulating \/ Returned) =>
        /\ error = "none"
        /\ \A i \in 1..Len(investment_dates) :
             DOMAIN investment_dates[i].allocations = Allocated

C19_SkipIsSideEffectFree == [](C19_NoPartialRecord) /\ [][C19_SkipStep]_vars

\* C19 witness: the run has returned after an attempt that was due on a date
\* where one ticker had a price and another had none, with shares held.
C19_Witness ==
    /\ Returned
    /\ investment_amount > 0
    /\ Len(investment_dates) >= 1
    /\ \E d \in start_date..end_date :
         /\ DueAndSkipped(d)
         /\ \E t \in Allocated : HasPrice(t, d)
         /\ d > investment_dates[1].date

\* C20: the balance is never negative: current_savings, every recorded
\* balance and final_savings are >= 0, an event executes only when the
\* balance after interest is at least investment_amount, and if the balance
\* after interest was below investment_amount on every date so far, there
\* is no event.
C20_NonNegative ==
    /\ (Simulating \/ Returned) =>
         /\ current_savings >= 0
         /\ \A i \in 1..Len(savings_history) :
              savings_history[i].savings_balance >= 0
    /\ Returned => result.final_savings >= 0

C20_NoEventWithoutCash ==
    ( /\ pc \in {"loop", "done"}
      /\ investment_amount > 0
      /\ \A i \in 1..Len(savings_history) :
           AfterInterest(PreviousBalance(i))
               < investment_amount * daily_rate[2] )
    => investment_dates = <<>> /\ total_invested = 0

C20_EventNeedsCash ==
    (Simulating /\ investment_dates' # investment_dates) =>
        /\ current_savings >= investment_amount
        /\ current_savings' = current_savings - investment_amount

C20_CashSufficiency ==
    [](C20_NonNegative /\ C20_NoEventWithoutCash) /\ [][C20_EventNeedsCash]_vars

\* C20 witness: after one event, a date on which the counter had reached the
\* interval and every ticker had a price has passed without a second event,
\* the balance being positive but below investment_amount.
C20_Witness ==
    /\ pc = "loop"
    /\ investment_amount > 0
    /\ Len(investment_dates) = 1
    /\ current_date > investment_dates[1].date
    /\ days_since_investment * IntervalDen >= investment_interval
    /\ AllPriced(current_date)
    /\ current_savings > 0
    /\ current_savings < investment_amount

\* C21: at most one event is recorded per date, event dates are strictly
\* ascending, the first event is no earlier than the n-th simulated date and
\* consecutive events are at least n days apart, where n is the interval
\* rounded up to whole days (4 for 'Twice a week', 7, 14, 30); no event is on
\* the start date.
WholeDays(frequency) ==
    CASE frequency = "Twice a week" -> 4
      [] frequency = "Weekly" -> 7
      [] frequency = "Every two weeks" -> 14
      [] frequency = "Monthly" -> 30
      [] OTHER -> 7

C22_HeldPriceInEveryState ==
    (Simulating /\ investment_amount > 0 /\ current_date >= start_date) =>
        \A t \in Allocated :
            total_shares_dict[t] > 0 =>
                /\ last_known_price_dict[t] # 0
                /\ last_known_price_dict[t] = MostRecentClose(t, current_date)

\* C22, amended: once the value of a date has been recorded (and in the
\* returned state) a ticker with shares > 0 has as last known price its most
\* recent close on or before that date, never the initial 0, and the
\* valuation step leaves it so; the last known price of a ticker with no
\* shares is never changed and stays 0.
DayComplete ==
    /\ investment_amount > 0
    /\ pc = "done" \/ (pc = "loop" /\ current_date >= start_date)

C22_HeldPriceAtDayEnd ==
    DayComplete =>
        \A t \in Allocated :
            total_shares_dict[t] > 0 =>
                /\ last_known_price_dict[t] # 0
                /\ last_known_price_dict[t] = MostRecentClose(t, current_date)
                /\ \E d \in start_date..current_date :
                     HasPrice(t, d) /\ CloseOn(t, d) = last_known_price_dict[t]

C22_ZeroSharesZeroPrice ==
    (Simulating /\ investment_amount > 0) =>
        \A t \in Allocated :
            total_shares_dict[t] = 0 => last_known_price_dict[t] = 0

C22_ValuationStep ==
    (Simulating /\ investment_amount > 0) =>
        \A t \in Allocated :
            /\ total_shares_dict[t] = 0 =>
                 last_known_price_dict'[t] = last_known_price_dict[t]
            /\ (pc = "value" /\ total_shares_dict[t] > 0) =>
                 /\ last_known_price_dict'[t] # 0
                 /\ last_known_price_dict'[t]
                        = MostRecentClose(t, current_date)

C22_HeldNeverAtPlaceholder ==
    [](C22_HeldPriceAtDayEnd /\ C22_ZeroSharesZeroPrice)
        /\ [][C22_ValuationStep]_vars

\* C22 witness: a held ticker without a price today carries an earlier
\* close, and it had a price on the start date, when it held no shares.
C22_Witness ==
    /\ DayComplete
    /\ pc = "loop"
    /\ \E t \in Allocated :
         /\ total_shares_dict[t] > 0
         /\ ~HasPrice(t, current_date)
         /\ last_known_price_dict[t] = MostRecentClose(t, current_date)
         /\ HasPrice(t, start_date)
         /\ investment_dates[1].date > start_date

\* C23: when no series of an allocated ticker has a row dated after the end
\* date, the returned final_portfolio_value equals the last entry of
\* portfolio_value_history, and for every ticker holding shares the final
\* price equals the last known price.
NoLaterRows ==
    \A t \in Allocated : \A i \in 1..Len(provider[t]) :
        provider[t][i].Date <= end_date

C23_ValuationsAgree ==
    (Returned /\ NoLaterRows) =>
        /\ Len(result.portfolio_value_history) >= 1
        /\ result.final_portfolio_value =
             result.portfolio_value_history[
                 Len(result.portfolio_value_history)].portfolio_value
        /\ investment_amount > 0 =>
             \A t \in Allocated :
                 result.total_shares[t] > 0 =>
                     result.final_stock_prices[t] = last_known_price_dict[t]

\* C23 witness: a run has returned with shares of a ticker that has no price
\* on the end date, whose last row is not its first, and no later rows.
C23_Witness ==
    /\ Returned
    /\ NoLaterRows
    /\ result.final_portfolio_value > 0
    /\ \E t \in Allocated :
         /\ result.total_shares[t] > 0
         /\ ~HasPrice(t, end_date)
         /\ result.final_stock_prices[t] # provider[t][1].Close

\* C24: in every event the amounts allocated to the tickers sum to
\* investment_amount times the sum of the fractions, and are what is
\* converted into shares, while the balance falls by the whole
\* investment_amount; the allocated amounts sum to total_amount exactly when
\* the fractions sum to 1.
AllocatedAmount(event) ==
    SumSeq([k \in 1..Len(portfolio_structure) |->
               event.allocations[portfolio_structure[k][1]].amount])

C24_AllocatedSum ==
    (Simulating \/ Returned) =>
        \A i \in 1..Len(investment_dates) :
            LET e == investment_dates[i]
            IN  /\ e.total_amount = investment_amount
                /\ AllocatedAmount(e) * AllocDen = investment_amount * FractionSum
                /\ AllocatedAmount(e) = e.total_amount <=> FractionSum = AllocDen
                /\ \A t \in Allocated :
                     e.allocations[t].shares * e.allocations[t].price
                         = e.allocations[t].amount * ShareDen

C24_FullDeduction ==
    (Simulating /\ investment_dates' # investment_dates) =>
        /\ current_savings' = current_savings - investment_amount
        /\ total_invested' = total_invested + investment_amount
        /\ Len(investment_dates') = Len(investment_dates) + 1

C24_MoneyInEvent == [](C24_AllocatedSum) /\ [][C24_FullDeduction]_vars

\* C24 witness: an event of an accepted allocation that does not sum to 1
\* deducted more than it allocated.
C24_Witness ==
    /\ Simulating
    /\ Len(investment_dates) >= 1
    /\ FractionSum < AllocDen
    /\ AllocatedAmount(investment_dates[1]) < investment_dates[1].total_amount
    /\ current_savings = initial_savings - investment_amount

-----------------------------------------------------------------------------
(* The app *)

\* a run of the script in which 'Calculate & Save' was pressed
CalculatePressed == clicks' = clicks + 1 /\ pressed' = "Calculate & Save"

ClearPressed == clicks' = clicks + 1 /\ pressed' = "Clear All"

SessionUnchanged ==
    /\ saved_scenarios' = saved_scenarios
    /\ current_results' = current_results
    /\ current_scenario_name' = current_scenario_name

\* C25 as stated: a 'Calculate & Save' click with initial savings > 0, a
\* non-empty scenario name that is not saved yet and a ticker with price
\* data stores the result and its parameters under that name, as exactly one
\* new entry, and makes it the current result and scenario name.
C25_SavingClick ==
    ( /\ CalculatePressed
      /\ initial_savings > 0
      /\ scenario_name # ""
      /\ scenario_name \notin DOMAIN saved_scenarios
      /\ provider[app_ticker] # <<>> )
    => /\ DOMAIN saved_scenarios' = DOMAIN saved_scenarios \cup {scenario_name}
       /\ saved_scenarios'[scenario_name].params = AppParams
       /\ saved_scenarios'[scenario_name].results.status = "returned"
       /\ current_results' = saved_scenarios'[scenario_name].results
       /\ current_scenario_name' = scenario_name

C25_ClickSaves == [][C25_SavingClick]_vars

\* C26: a 'Calculate & Save' click that is rejected (initial savings 0,
\* empty name, name already saved) or whose calculation raises leaves
\* saved_scenarios, current_results and current_scenario_name unchanged; no
\* saved entry is ever overwritten; saved_scenarios loses entries only by
\* 'Clear All', which empties it and removes current_results and
\* current_scenario_name.
C26_RejectedClick ==
    ( /\ CalculatePressed
      /\ \/ initial_savings = 0
         \/ scenario_name = ""
         \/ scenario_name \in DOMAIN saved_scenarios
         \/ message' \in {"error: ValueError", "error: An error occurred"} )
    => SessionUnchanged

C26_NoOverwrite ==
    \A n \in DOMAIN saved_scenarios \cap DOMAIN saved_scenarios' :
        saved_scenarios'[n] = saved_scenarios[n]

C26_ShrinkOnlyByClear ==
    (DOMAIN saved_scenarios \ DOMAIN saved_scenarios' # {}) =>
        /\ ClearPressed
        /\ DOMAIN saved_scenarios' = {}
        /\ current_results' = NoResult
        /\ current_scenario_name' = Absent

C26_PartialState ==
    /\ current_scenario_name # Absent <=> current_results # NoResult
    /\ current_scenario_name # Absent =>
         /\ current_scenario_name \in DOMAIN saved_scenarios
         /\ saved_scenarios[current_scenario_name].results = current_results

C26_SavedNeverCorrupted ==
    [](C26_PartialState)
        /\ [][C26_RejectedClick /\ C26_NoOverwrite /\ C26_ShrinkOnlyByClear]_vars

\* C26 witness: after a rejected click, a click with initial savings > 0 and
\* a new name has ended in the error message, the session state as before.
C26_Witness ==
    /\ clicks = 2
    /\ pressed = "Calculate & Save"
    /\ initial_savings > 0
    /\ scenario_name # ""
    /\ scenario_name \notin DOMAIN saved_scenarios
    /\ message = "error: An error occurred"
    /\ current_results = NoResult
    /\ current_scenario_name = Absent

====
